---- MODULE Spec2Model ----
(***************************************************************************)
(* The hospital route dashboard (src/hospital.py) as a state machine.      *)
(*                                                                         *)
(* The script is re-executed from its first line on every user             *)
(* interaction.  A state of the model is what one execution leaves behind: *)
(* the widget values it read, the map it built, the messages it displayed, *)
(* route_data and the download control.  One action is one user            *)
(* interaction together with the whole execution it triggers.              *)
(*                                                                         *)
(* Conventions.  Python's None is NoneVal for names and the empty sequence *)
(* for optional records (<<r>> when present); a spreadsheet cell is <<>>   *)
(* when empty (NaN) and <<v>> when it holds v.  The service's distances    *)
(* and durations are whole metres and whole seconds; what the script       *)
(* computes from them are Python floats, modelled bit for bit.             *)
(***************************************************************************)
EXTENDS Integers, Sequences, FiniteSets, TLC

VARIABLES
    sheet,        \* the rows of "Malaysia Hospital.xlsx" as read_excel returns them
    df,           \* the data frame after dropna
    api_key, speed_input, state_a, hospital_a, state_b, hospital_b, reset_map,
    m,            \* the folium map: the sequence of children added to it
    displayed,    \* whether st_folium(m) was reached in this execution
    messages,     \* st.success / st.info / st.caption / st.error / st.warning, in order
    route_data,   \* <<>> for None, <<record>> otherwise
    download,     \* whether st.download_button was created
    calc,         \* the locals of lines 84-91 once computed (<<>> before)
    requests,     \* routing requests issued since the last user interaction
    sent,         \* the coordinates of the request of this execution (<<>>: none)
    raised,       \* <<str(e)>> when the try block raised e in this execution
    flow,         \* the lookup flow states this execution went through
    prevAttempt,  \* history: outcome of the last lookup attempt before this execution
    pc            \* "done": execution finished; "rerun": stopped by st.experimental_rerun

vars == <<sheet, df, api_key, speed_input, state_a, hospital_a, state_b, hospital_b,
          reset_map, m, displayed, messages, route_data, download, calc, requests,
          sent, raised, flow, prevAttempt, pc>>

----------------------------------------------------------------------------
(* Bounds and input sets *)

MaxRows == 3

Range(s) == {s[i] : i \in DOMAIN s}

NoneVal == "<None>"

\* State names, listed in Python's sorted() order.
StateNames == <<"Johor", "Kedah">>

HospitalNames == <<"Hospital Besar", "Klinik Utama">>

\* Row i of the sheet: consecutive pairs of rows share a hospital name, and the
\* states alternate, so one name occurs in two states.
SheetHospital(i) == HospitalNames[((((i + 1) \div 2) - 1) % Len(HospitalNames)) + 1]

SheetState(i) == StateNames[((i - 1) % Len(StateNames)) + 1]

CellPatterns == {"complete", "noLatitude", "noLongitude"}

SheetRow(i, p) ==
    [Hospital  |-> SheetHospital(i),
     State     |-> SheetState(i),
     Latitude  |-> IF p = "noLatitude" THEN <<>> ELSE <<i>>,
     Longitude |-> IF p = "noLongitude" THEN <<>> ELSE <<100 + i>>]

Sheets == {[i \in 1..MaxRows |-> SheetRow(i, f[i])] : f \in [1..MaxRows -> CellPatterns]}

ApiKeys == {"", "ors-key"}

\* st.sidebar.number_input(min_value=10, max_value=200, value=80)
MinSpeed == 10

MaxSpeed == 200

DefaultSpeed == 80

Speeds == {MinSpeed, DefaultSpeed, MaxSpeed}

Stages == <<"client", "directions", "extract", "overlay", "markerA", "markerB">>

\* What the routing service and the libraries do in one execution: the stage of
\* the try block that raises ("none": no stage raises), and the first segment's
\* distance (metres) and duration (seconds) of the response.
Env(failAt, d, t) == [failAt |-> failAt, distance |-> d, duration |-> t]

Envs ==
    {Env(Stages[i], 123400, 5400) : i \in 1..Len(Stages)}
        \cup {Env("none", d, 5400) : d \in {92000, 123400}}

----------------------------------------------------------------------------
(* Helpers *)

\* pandas Series.unique(): the distinct values in order of first appearance.
Unique(s) ==
    LET first == SelectSeq([i \in DOMAIN s |-> i],
                           LAMBDA i : \A j \in 1..(i - 1) : s[j] # s[i])
    IN  [k \in DOMAIN first |-> s[first[k]]]

\* Python truthiness of a str-or-None value.
Truthy(x) == x # "" /\ x # NoneVal

----------------------------------------------------------------------------
(* Python floats.  distance_km, duration_hr and est_time_hr are IEEE-754     *)
(* doubles; int() of a product of doubles depends on how the product was     *)
(* rounded, so the arithmetic is modelled bit for bit.  A natural number of  *)
(* any size is the sequence of its digits in base Base, least significant    *)
(* first, without leading zeros; a float x >= 0 is [m, e] with value         *)
(* m * 2^e and m of at most DoublePrecision bits.                            *)

LimbBits == 3 * 5

Base == 2 ^ LimbBits

DoublePrecision == 53

\* s without its leading (most significant) zero digits.
Trim(s) ==
    LET used == {i \in DOMAIN s : s[i] # 0}
    IN  IF used = {} THEN <<>>
        ELSE SubSeq(s, 1, CHOOSE i \in used : \A j \in used : j <= i)

\* An int 0 <= n < 2^31 has at most three digits.
NatOfInt(n) == Trim(<<n % Base, (n \div Base) % Base, n \div (Base * Base)>>)

\* The int a natural number of at most three digits is.
NatToInt(s) ==
    (IF Len(s) >= 1 THEN s[1] ELSE 0)
        + (IF Len(s) >= 2 THEN s[2] * Base ELSE 0)
        + (IF Len(s) >= 3 THEN s[3] * Base * Base ELSE 0)

\* s * k + c for 0 <= k <= Base and 0 <= c < Base.
TimesPlus(s, k, c) ==
    LET carry[i \in 0..Len(s)] ==
            IF i = 0 THEN c ELSE (s[i] * k + carry[i - 1]) \div Base
    IN  Trim([i \in 1..Len(s) + 1 |->
                IF i <= Len(s) THEN (s[i] * k + carry[i - 1]) % Base
                ELSE carry[Len(s)]])

TimesSmall(s, k) == TimesPlus(s, k, 0)

PlusOne(s) == TimesPlus(s, 1, 1)

\* Quotient and remainder of s by k, 0 < k < 2 * Base: long division from the
\* most significant digit down.
DivideSmall(s, k) ==
    LET rem[i \in 1..Len(s) + 1] ==
            IF i = Len(s) + 1 THEN 0 ELSE (rem[i + 1] * Base + s[i]) % k
    IN  [q |-> Trim([i \in 1..Len(s) |-> (rem[i + 1] * Base + s[i]) \div k]),
         r |-> rem[1]]

IntBitLength(n) == CHOOSE b \in 0..LimbBits : n < 2 ^ b /\ (b = 0 \/ n >= 2 ^ (b - 1))

BitLength(s) ==
    IF s = <<>> THEN 0 ELSE LimbBits * (Len(s) - 1) + IntBitLength(s[Len(s)])

ShiftLeft(s, n) ==
    Trim([i \in 1..(n \div LimbBits) |-> 0] \o TimesSmall(s, 2 ^ (n % LimbBits)))

ShiftRight(s, n) ==
    IF n \div LimbBits >= Len(s) THEN <<>>
    ELSE DivideSmall(SubSeq(s, (n \div LimbBits) + 1, Len(s)), 2 ^ (n % LimbBits)).q

\* s mod 2^n
LowBits(s, n) ==
    LET whole == n \div LimbBits
    IN  IF whole >= Len(s) THEN s
        ELSE Trim(SubSeq(s, 1, whole) \o <<s[whole + 1] % (2 ^ (n % LimbBits))>>)

\* -1, 0 or 1 as a < b, a = b or a > b.
Compare(a, b) ==
    IF Len(a) # Len(b) THEN (IF Len(a) < Len(b) THEN -1 ELSE 1)
    ELSE LET differ == {i \in DOMAIN a : a[i] # b[i]}
         IN  IF differ = {} THEN 0
             ELSE LET top == CHOOSE i \in differ : \A j \in differ : j <= i
                  IN  IF a[top] < b[top] THEN -1 ELSE 1

IsOdd(s) == s # <<>> /\ s[1] % 2 = 1

\* The float nearest to n * 2^e (plus a little, when sticky), ties to even.
RoundToDouble(n, e, sticky) ==
    LET sh == BitLength(n) - DoublePrecision
    IN  IF sh <= 0 THEN [m |-> n, e |-> e]
        ELSE LET kept == ShiftRight(n, sh)
                 cmp  == Compare(LowBits(n, sh), ShiftLeft(<<1>>, sh - 1))
                 up   == cmp > 0 \/ (cmp = 0 /\ (sticky \/ IsOdd(kept)))
             IN  [m |-> IF up THEN PlusOne(kept) ELSE kept, e |-> e + sh]

FloatOfInt(n) == [m |-> NatOfInt(n), e |-> 0]

\* Guard digits of the quotient, so that it has more than DoublePrecision bits.
GuardBits == 5 * LimbBits

\* x / k for a float x >= 0 and an int 0 < k < 2 * Base, correctly rounded.
FloatDivide(x, k) ==
    LET d == DivideSmall(ShiftLeft(x.m, GuardBits), k)
    IN  RoundToDouble(d.q, x.e - GuardBits, d.r # 0)

\* x * k for a float x >= 0 and an int 0 <= k <= Base, correctly rounded.
FloatTimes(x, k) == RoundToDouble(TimesSmall(x.m, k), x.e, FALSE)

----------------------------------------------------------------------------
(* 1. Load hospital data (lines 11-21) *)

\* Mutant: only the latitude is required.
DropNa_LatitudeOnly(rows) == SelectSeq(rows, LAMBDA r : r.Latitude # <<>>)

\* df.dropna(subset=["Latitude", "Longitude"]): rows with either cell empty go.
DropNa(rows) ==
    SelectSeq(rows, LAMBDA r : r.Latitude # <<>> /\ r.Longitude # <<>>)

LoadData(file) == DropNa(file)

----------------------------------------------------------------------------
(* 2. Sidebar (lines 28-42) *)

\* sorted(df["State"].unique())
StateOptions(frame) ==
    SelectSeq(StateNames, LAMBDA s : \E i \in DOMAIN frame : frame[i].State = s)

\* df[df["State"] == state]["Hospital"].unique()
HospitalOptions(frame, state) ==
    LET rows == SelectSeq(frame, LAMBDA r : r.State = state)
    IN  Unique([i \in DOMAIN rows |-> rows[i].Hospital])

\* st.sidebar.selectbox: the user's choice when it is one of the options, the
\* first option otherwise, None when there are no options.
Selectbox(options, choice) ==
    IF options = <<>> THEN NoneVal
    ELSE IF choice \in Range(options) THEN choice ELSE options[1]

----------------------------------------------------------------------------
(* 3. Base map (lines 51-59) *)

Marker(lat, lon, popup, color) ==
    [kind |-> "Marker", location |-> <<lat, lon>>, popup |-> popup, color |-> color]

GeoJson(coord_a, coord_b) ==
    [kind |-> "GeoJson", location |-> <<coord_a, coord_b>>, popup |-> "Route",
     color |-> ""]

\* One blue marker per row of df, on a fresh map.
BaseMap(frame) ==
    [i \in DOMAIN frame |->
        Marker(frame[i].Latitude, frame[i].Longitude,
               frame[i].Hospital \o " (" \o frame[i].State \o ")", "blue")]

\* Mutant: the reset button is ignored.
ResetAborts_Ignored(reset) == FALSE

\* Line 62: a pressed reset button restarts the script before the lookup.
ResetAborts(reset) == reset

----------------------------------------------------------------------------
(* 4. Calculate distance (lines 68-124) *)

\* Mutant: route_data is not cleared.
RouteDataAtStart_Kept(previous) == previous

\* Line 68.
RouteDataAtStart(previous) == <<>>

\* Mutant: the key is not tested.
ShouldLookup_NoKey(key, h_a, h_b) == Truthy(h_a) /\ Truthy(h_b)

\* Line 70.
ShouldLookup(key, h_a, h_b) == Truthy(key) /\ Truthy(h_a) /\ Truthy(h_b)

\* df[df["Hospital"] == hospital].iloc[0]: the first row with that name.
FirstRow(frame, hospital) ==
    LET rows == SelectSeq(frame, LAMBDA r : r.Hospital = hospital)
    IN  rows[1]

\* (row["Longitude"], row["Latitude"])
Coord(row) == <<row.Longitude[1], row.Latitude[1]>>

\* The service's answer for two points: nothing to drive between a point and
\* itself, the environment's figures otherwise.
Directions(coord_a, coord_b, env) ==
    IF coord_a = coord_b
    THEN [distance |-> 0, duration |-> 0]
    ELSE [distance |-> env.distance, duration |-> env.duration]

\* int(x) for a float x >= 0.
FloatToInt(x) ==
    IF x.e >= 0 THEN NatToInt(ShiftLeft(x.m, x.e)) ELSE NatToInt(ShiftRight(x.m, -x.e))

\* x - int(x) for a float x >= 0: exact in binary floating point.
FloatFraction(x) ==
    IF x.e >= 0 THEN [m |-> <<>>, e |-> 0] ELSE [m |-> LowBits(x.m, -x.e), e |-> x.e]

\* int(est_time_hr)
EstHours(est_time_hr) == FloatToInt(est_time_hr)

\* int((est_time_hr - est_hours) * 60)
EstMinutes(est_time_hr, est_hours) ==
    FloatToInt(FloatTimes(FloatFraction(est_time_hr), 60))

\* Mutant: the distance times the speed.
EstTimeHr_Times(distance_km, speed) == FloatTimes(distance_km, speed)

\* distance_km / speed_input
EstTimeHr(distance_km, speed) == FloatDivide(distance_km, speed)

\* distance_m / 1000
DistanceKm(distance_m) == FloatDivide(FloatOfInt(distance_m), 1000)

\* duration_s / 3600
DurationHr(duration_s) == FloatDivide(FloatOfInt(duration_s), 3600)

\* The locals of lines 84-91 once all are computed.
CalcRecord(route, distance_km, duration_hr, est_time_hr, est_hours) ==
    [distance_m  |-> route.distance,
     duration_s  |-> route.duration,
     distance_km |-> distance_km,
     duration_hr |-> duration_hr,
     est_time_hr |-> est_time_hr,
     est_hours   |-> est_hours,
     est_minutes |-> EstMinutes(est_time_hr, est_hours)]

\* Lines 90-91.
CalcSplit(route, distance_km, duration_hr, est_time_hr) ==
    CalcRecord(route, distance_km, duration_hr, est_time_hr, EstHours(est_time_hr))

\* Line 89.
CalcEstimate(route, distance_km, duration_hr, speed) ==
    CalcSplit(route, distance_km, duration_hr, EstTimeHr(distance_km, speed))

\* Lines 84-91.
RouteCalc(route, speed) ==
    CalcEstimate(route, DistanceKm(route.distance), DurationHr(route.duration), speed)

TwoDigits(n) == IF n < 10 THEN "0" \o ToString(n) ELSE ToString(n)

\* f"{x:.2f}" for a float x >= 0: the hundredth nearest to the float's exact
\* value, ties to even.
Fmt2(x) ==
    LET n    == TimesSmall(x.m, 100)
        sh   == -x.e
        q    == IF sh <= 0 THEN ShiftLeft(n, x.e) ELSE ShiftRight(n, sh)
        cmp  == IF sh <= 0 THEN -1 ELSE Compare(LowBits(n, sh), ShiftLeft(<<1>>, sh - 1))
        up   == cmp > 0 \/ (cmp = 0 /\ IsOdd(q))
        c    == NatToInt(q) + (IF up THEN 1 ELSE 0)
    IN  ToString(c \div 100) \o "." \o TwoDigits(c % 100)

\* f"{est_hours} hr {est_minutes} min"
HrMin(c) == ToString(c.est_hours) \o " hr " \o ToString(c.est_minutes) \o " min"

\* f"{duration_hr:.2f} hr"
ApiTime(c) == Fmt2(c.duration_hr) \o " hr"

Message(kind, text) == [kind |-> kind, text |-> text]

\* str(e) of the exception a stage raises.
ErrorText(stage) == "failed: " \o stage

\* Mutant: the exception's text is dropped.
ExceptHandler_Generic(e) == <<Message("error", "Error calculating route")>>

\* Line 121.
ExceptHandler(e) == <<Message("error", "Error calculating route: " \o e)>>

\* Lines 105-107.
ResultMessages(h_a, h_b, speed, c) ==
    <<Message("success", "Distance from " \o h_a \o " -> " \o h_b \o ": "
                             \o Fmt2(c.distance_km) \o " km"),
      Message("info", "Estimated time @ " \o ToString(speed) \o " km/h: " \o HrMin(c)),
      Message("caption", "Actual time from OpenRouteService: " \o ApiTime(c))>>

\* Lines 110-118.
RouteData(h_a, s_a, h_b, s_b, c) ==
    [HospitalA |-> h_a, StateA |-> s_a, HospitalB |-> h_b, StateB |-> s_b,
     DistanceKm |-> c.distance_km, EstTime |-> HrMin(c), ApiTime |-> ApiTime(c)]

StageIndex(stage) == CHOOSE i \in 1..Len(Stages) + 1 :
                        IF stage = "none" THEN i = Len(Stages) + 1 ELSE Stages[i] = stage

\* Mutant: a failed request is sent a second time.
RequestsIssued_Retry(failAt) ==
    IF failAt = "directions" THEN 2
    ELSE IF StageIndex("directions") <= StageIndex(failAt) THEN 1 ELSE 0

\* Whether client.directions is called: once, when client creation succeeded.
RequestsIssued(failAt) == IF StageIndex("directions") <= StageIndex(failAt) THEN 1 ELSE 0

\* Whether a stage of the try block completed before any stage raised.
Passed(stage, failAt) == StageIndex(stage) < StageIndex(failAt)

\* Lines 93-103: what the try block adds to the map, each child as soon as
\* its stage completes.
RouteLayers(a_row, b_row, h_a, h_b, failAt) ==
    (IF Passed("overlay", failAt) THEN <<GeoJson(Coord(a_row), Coord(b_row))>> ELSE <<>>)
        \o (IF Passed("markerA", failAt)
            THEN <<Marker(a_row.Latitude, a_row.Longitude, "Hospital A: " \o h_a, "green")>>
            ELSE <<>>)
        \o (IF Passed("markerB", failAt)
            THEN <<Marker(b_row.Latitude, b_row.Longitude, "Hospital B: " \o h_b, "red")>>
            ELSE <<>>)

\* Lines 84-121, c being the figures of lines 84-91.  A stage that raises ends
\* the block; what earlier stages did to the map stays done.
TryOutcome(map0, h_a, s_a, h_b, s_b, speed, failAt, rd0, a_row, b_row, c) ==
    [m          |-> map0 \o RouteLayers(a_row, b_row, h_a, h_b, failAt),
     messages   |-> IF failAt = "none" THEN ResultMessages(h_a, h_b, speed, c)
                    ELSE ExceptHandler(ErrorText(failAt)),
     route_data |-> IF failAt = "none" THEN <<RouteData(h_a, s_a, h_b, s_b, c)>> ELSE rd0,
     calc       |-> IF Passed("extract", failAt) THEN <<c>> ELSE <<>>,
     requests   |-> RequestsIssued(failAt),
     sent       |-> IF RequestsIssued(failAt) > 0
                    THEN <<Coord(a_row), Coord(b_row)>> ELSE <<>>,
     raised     |-> IF failAt = "none" THEN <<>> ELSE <<ErrorText(failAt)>>,
     flow       |-> <<"Requesting", IF failAt = "none" THEN "Success" ELSE "Failure">>]

\* Lines 74-121, a_row and b_row being the rows of lines 72-73.
TryRows(map0, h_a, s_a, h_b, s_b, speed, env, rd0, a_row, b_row) ==
    TryOutcome(map0, h_a, s_a, h_b, s_b, speed, env.failAt, rd0, a_row, b_row,
               RouteCalc(Directions(Coord(a_row), Coord(b_row), env), speed))

\* Lines 71-121: the try block with its except clause.
TryBlock(frame, map0, h_a, s_a, h_b, s_b, speed, env, rd0) ==
    TryRows(map0, h_a, s_a, h_b, s_b, speed, env, rd0,
            FirstRow(frame, h_a), FirstRow(frame, h_b))

\* Lines 123-124 and the fall-through when a hospital is missing.
NoLookup(map0, key, rd0) ==
    [m |-> map0,
     messages   |-> IF ~Truthy(key)
                    THEN <<Message("warning", "Please enter your OpenRouteService API key in the sidebar.")>>
                    ELSE <<>>,
     route_data |-> rd0, calc |-> <<>>, requests |-> 0, sent |-> <<>>,
     raised |-> <<>>, flow |-> <<"Idle">>]

----------------------------------------------------------------------------
(* 5. Export (lines 129-138) *)

\* if route_data: the download button exists exactly when route_data is set.
ExportBlock(rd) == rd # <<>>

----------------------------------------------------------------------------
(* One execution of the script, top to bottom *)

\* Lines 28-42: what the widgets return, given the values the front end holds
\* (a selectbox choice that is not among the options falls back to the first
\* option) and whether the reset button was the widget pressed.
Widgets(frame, key, speed, c_sa, c_ha, c_sb, c_hb, reset) ==
    LET s_a == Selectbox(StateOptions(frame), c_sa)
        s_b == Selectbox(StateOptions(frame), c_sb)
    IN  [df |-> frame, api_key |-> key, speed_input |-> speed,
         state_a |-> s_a, hospital_a |-> Selectbox(HospitalOptions(frame, s_a), c_ha),
         state_b |-> s_b, hospital_b |-> Selectbox(HospitalOptions(frame, s_b), c_hb),
         reset_map |-> reset]

\* Lines 70-124.
Lookup(w, map0, env, rd0) ==
    IF ShouldLookup(w.api_key, w.hospital_a, w.hospital_b)
    THEN TryBlock(w.df, map0, w.hospital_a, w.state_a, w.hospital_b, w.state_b,
                  w.speed_input, env, rd0)
    ELSE NoLookup(map0, w.api_key, rd0)

\* An execution stopped at line 63: the map is built, nothing is shown.
Aborted(w, map0) ==
    [read |-> w, m |-> map0, displayed |-> FALSE, messages |-> <<>>,
     route_data |-> <<>>, download |-> FALSE, calc |-> <<>>,
     requests |-> 0, sent |-> <<>>, raised |-> <<>>, flow |-> <<>>, pc |-> "rerun"]

\* An execution that reached line 143, r being what lines 68-124 produced.
Completed(w, r) ==
    [read |-> w, m |-> r.m, displayed |-> TRUE, messages |-> r.messages,
     route_data |-> r.route_data, download |-> ExportBlock(r.route_data),
     calc |-> r.calc, requests |-> r.requests, sent |-> r.sent,
     raised |-> r.raised, flow |-> r.flow, pc |-> "done"]

\* Lines 47-143.
Script(w, map0, env, rd_prev) ==
    IF ResetAborts(w.reset_map) THEN Aborted(w, map0)
    ELSE Completed(w, Lookup(w, map0, env, RouteDataAtStart(rd_prev)))

\* What an execution leaves behind, given the file, the widget values the
\* front end holds, the environment's behaviour and route_data's previous value.
Execute(file, key, speed, c_sa, c_ha, c_sb, c_hb, reset, env, rd_prev) ==
    Script(Widgets(LoadData(file), key, speed, c_sa, c_ha, c_sb, c_hb, reset),
           BaseMap(LoadData(file)), env, rd_prev)

\* The outcome of the last lookup attempt once an execution with flow f is
\* over, the last one before it being `before`.
Attempt(f, before) == IF Len(f) = 2 THEN f[2] ELSE before

InitialState(o) ==
    /\ df = o.read.df
    /\ api_key = o.read.api_key
    /\ speed_input = o.read.speed_input
    /\ state_a = o.read.state_a
    /\ hospital_a = o.read.hospital_a
    /\ state_b = o.read.state_b
    /\ hospital_b = o.read.hospital_b
    /\ reset_map = o.read.reset_map
    /\ m = o.m
    /\ displayed = o.displayed
    /\ messages = o.messages
    /\ route_data = o.route_data
    /\ download = o.download
    /\ calc = o.calc
    /\ requests = o.requests
    /\ sent = o.sent
    /\ raised = o.raised
    /\ flow = o.flow
    /\ prevAttempt = "None"
    /\ pc = o.pc

\* The first execution of a session: no key yet, the default speed, every
\* selectbox on its first option.
Init ==
    /\ sheet \in Sheets
    /\ InitialState(Execute(sheet, "", DefaultSpeed, NoneVal, NoneVal, NoneVal, NoneVal,
                            FALSE, Env("none", 0, 0), <<>>))

\* The state after an execution with outcome o; requestsBefore is what the
\* current user interaction had already issued.
Install(o, requestsBefore) ==
    /\ sheet' = sheet
    /\ df' = o.read.df
    /\ api_key' = o.read.api_key
    /\ speed_input' = o.read.speed_input
    /\ state_a' = o.read.state_a
    /\ hospital_a' = o.read.hospital_a
    /\ state_b' = o.read.state_b
    /\ hospital_b' = o.read.hospital_b
    /\ reset_map' = o.read.reset_map
    /\ m' = o.m
    /\ displayed' = o.displayed
    /\ messages' = o.messages
    /\ route_data' = o.route_data
    /\ download' = o.download
    /\ calc' = o.calc
    /\ requests' = requestsBefore + o.requests
    /\ sent' = o.sent
    /\ raised' = o.raised
    /\ flow' = o.flow
    /\ prevAttempt' = Attempt(flow, prevAttempt)
    /\ pc' = o.pc

\* A selectbox whose option list changed is a new widget and shows its first
\* option; one whose options are the same keeps the user's choice.
Cascade(oldState, newState, choice) ==
    IF HospitalOptions(df, newState) = HospitalOptions(df, oldState)
    THEN choice ELSE NoneVal

----------------------------------------------------------------------------
(* User interactions; each triggers one execution *)

EnterApiKey ==
    \E k \in ApiKeys \ {api_key}, env \in Envs :
        /\ pc = "done"
        /\ Install(Execute(sheet, k, speed_input, state_a, hospital_a, state_b,
                           hospital_b, FALSE, env, route_data), 0)

SetSpeed ==
    \E v \in Speeds \ {speed_input}, env \in Envs :
        /\ pc = "done"
        /\ Install(Execute(sheet, api_key, v, state_a, hospital_a, state_b,
                           hospital_b, FALSE, env, route_data), 0)

SelectStateA ==
    \E s \in Range(StateOptions(df)) \ {state_a}, env \in Envs :
        /\ pc = "done"
        /\ Install(Execute(sheet, api_key, speed_input, s,
                           Cascade(state_a, s, hospital_a), state_b, hospital_b,
                           FALSE, env, route_data), 0)

SelectHospitalA ==
    \E h \in Range(HospitalOptions(df, state_a)) \ {hospital_a}, env \in Envs :
        /\ pc = "done"
        /\ Install(Execute(sheet, api_key, speed_input, state_a, h, state_b,
                           hospital_b, FALSE, env, route_data), 0)

SelectStateB ==
    \E s \in Range(StateOptions(df)) \ {state_b}, env \in Envs :
        /\ pc = "done"
        /\ Install(Execute(sheet, api_key, speed_input, state_a, hospital_a, s,
                           Cascade(state_b, s, hospital_b), FALSE, env, route_data), 0)

SelectHospitalB ==
    \E h \in Range(HospitalOptions(df, state_b)) \ {hospital_b}, env \in Envs :
        /\ pc = "done"
        /\ Install(Execute(sheet, api_key, speed_input, state_a, hospital_a, state_b,
                           h, FALSE, env, route_data), 0)

\* The reset button: the execution it triggers stops at line 63.
PressReset ==
    \E env \in Envs :
        /\ pc = "done"
        /\ Install(Execute(sheet, api_key, speed_input, state_a, hospital_a, state_b,
                           hospital_b, TRUE, env, route_data), 0)

\* st.experimental_rerun(): the script starts over, the button no longer pressed.
Rerun ==
    \E env \in Envs :
        /\ pc = "rerun"
        /\ Install(Execute(sheet, api_key, speed_input, state_a, hospital_a, state_b,
                           hospital_b, FALSE, env, route_data), requests)

Next ==
    \/ EnterApiKey
    \/ SetSpeed
    \/ SelectStateA
    \/ SelectHospitalA
    \/ SelectStateB
    \/ SelectHospitalB
    \/ PressReset
    \/ Rerun

Spec == Init /\ [][Next]_vars

----------------------------------------------------------------------------
(* Vocabulary of the properties *)

Requested == Len(flow) = 2 /\ flow[1] = "Requesting"

Succeeded == flow = <<"Requesting", "Success">>

Failed == flow = <<"Requesting", "Failure">>

\* The outcome of the session's most recent lookup attempt.
LastAttempt == Attempt(flow, prevAttempt)

HasRecord == route_data # <<>>

OfKind(kind) == {i \in DOMAIN messages : messages[i].kind = kind}

\* The distance and the two times are on screen.
ResultShown == OfKind("success") # {} /\ OfKind("info") # {} /\ OfKind("caption") # {}

HasOverlay == \E i \in DOMAIN m : m[i].kind = "GeoJson"

HasEndpoint(color) == \E i \in DOMAIN m : m[i].kind = "Marker" /\ m[i].color = color

Ready == Truthy(api_key) /\ Truthy(hospital_a) /\ Truthy(hospital_b)

Complete(row) == row.Latitude # <<>> /\ row.Longitude # <<>>

----------------------------------------------------------------------------
(* C1 *)

\* C1, as stated: once an execution is over, a route result and route_data
\* exist if and only if the last lookup attempt of the session succeeded.
C1_LastAttempt ==
    pc = "done" => ((HasRecord /\ ResultShown) <=> LastAttempt = "Success")

\* C1, amended: route_data, the displayed result and the download control exist
\* exactly when this execution made a lookup attempt and the attempt succeeded;
\* a failed attempt and an execution without an attempt leave none, whatever
\* an earlier attempt produced, and a record that exists is the record of the
\* current selection.
C1_FreshEachRun ==
    /\ HasRecord <=> Succeeded
    /\ ResultShown <=> Succeeded
    /\ download <=> Succeeded
    /\ HasRecord =>
        /\ route_data[1].HospitalA = hospital_a /\ route_data[1].StateA = state_a
        /\ route_data[1].HospitalB = hospital_b /\ route_data[1].StateB = state_b
        /\ calc # <<>> /\ route_data[1].DistanceKm = calc[1].distance_km

\* A failed attempt right after a successful one: the earlier record is gone.
C1_Witness ==
    pc = "done" /\ Failed /\ prevAttempt = "Success" /\ ~HasRecord /\ ~download

----------------------------------------------------------------------------
(* C2 *)

\* C2: a lookup that fails at any stage of the try block leaves the rendered
\* map without route overlay and without endpoint markers, and leaves no
\* exportable record.
C2_NoPartialResult ==
    (displayed /\ Failed) =>
        /\ ~HasOverlay /\ ~HasEndpoint("green") /\ ~HasEndpoint("red")
        /\ ~HasRecord /\ ~download

----------------------------------------------------------------------------
(* C3 *)

\* C3: with an empty api_key no routing request is issued, no error is shown
\* (only the prompt for the key), and there is no record and no download
\* control, whatever is selected.
C3_NoCredential ==
    api_key = "" =>
        /\ requests = 0 /\ sent = <<>> /\ ~Requested
        /\ OfKind("error") = {} /\ raised = <<>>
        /\ ~HasRecord /\ ~download
        /\ pc = "done" => (Len(messages) = 1 /\ messages[1].kind = "warning")

\* The key was cleared after a successful lookup, both hospitals selected.
C3_Witness ==
    /\ api_key = "" /\ pc = "done" /\ prevAttempt = "Success"
    /\ Truthy(hospital_a) /\ Truthy(hospital_b) /\ hospital_a # hospital_b

----------------------------------------------------------------------------
(* C4 *)

\* C4: a lookup that raises shows exactly one error message, which carries the
\* text of the exception, and produces no record and no download control; the
\* download control exists only in executions where a record exists.
C4_ErrorShown ==
    /\ Failed =>
        /\ Len(raised) = 1
        /\ Cardinality(OfKind("error")) = 1
        /\ \A i \in OfKind("error") :
              messages[i].text = "Error calculating route: " \o raised[1]
        /\ ~HasRecord /\ ~download
    /\ download => HasRecord

\* The routing request itself failed.
C4_Witness ==
    Failed /\ requests = 1 /\ raised = <<ErrorText("directions")>> /\ displayed

----------------------------------------------------------------------------
(* C5 *)

ExactHours(distance_m, speed) == distance_m \div (1000 * speed)

ExactMinutes(distance_m, speed) ==
    ((distance_m % (1000 * speed)) * 60) \div (1000 * speed)

\* C5: on success the estimate is distance_km / speed split by truncation,
\* hours = floor(estimate) and minutes = floor((estimate - hours) * 60); and
\* 123400 m, 5400 s at 80 km/h give "1 hr 32 min" and "1.50 hr".
C5_Truncation ==
    Succeeded =>
        /\ calc[1].est_hours = ExactHours(calc[1].distance_m, speed_input)
        /\ calc[1].est_minutes = ExactMinutes(calc[1].distance_m, speed_input)
        /\ route_data[1].EstTime = HrMin(calc[1])
        /\ (calc[1].distance_m = 123400 /\ calc[1].duration_s = 5400 /\ speed_input = 80)
              => (route_data[1].EstTime = "1 hr 32 min" /\ route_data[1].ApiTime = "1.50 hr")

----------------------------------------------------------------------------
(* C6 *)

\* a + b
Plus(a, b) ==
    LET n == IF Len(a) > Len(b) THEN Len(a) ELSE Len(b)
        digit(x, i) == IF i <= Len(x) THEN x[i] ELSE 0
        carry[i \in 0..n] ==
            IF i = 0 THEN 0 ELSE (digit(a, i) + digit(b, i) + carry[i - 1]) \div Base
    IN  Trim([i \in 1..n + 1 |->
                IF i <= n THEN (digit(a, i) + digit(b, i) + carry[i - 1]) % Base
                ELSE carry[n]])

\* a <= b
AtMost(a, b) == Compare(a, b) <= 0

\* The float x (with x.e <= 0) is within relative error 2^-51 of num / (k1 * k2).
NearQuotient(x, num, k1, k2) ==
    LET lhs == TimesSmall(TimesSmall(x.m, k1), k2)
        rhs == ShiftLeft(NatOfInt(num), -x.e)
        tol == ShiftRight(rhs, 51)
    IN  AtMost(lhs, Plus(rhs, tol)) /\ AtMost(rhs, Plus(lhs, tol))

IsZero(x) == x.m = <<>>

\* C6, as stated: every successful lookup, for every pair of hospitals the
\* selectors allow, has distance_km > 0 and est_time_hr = distance_km / speed.
C6_PositiveDistance ==
    Succeeded =>
        /\ ~IsZero(calc[1].distance_km)
        /\ NearQuotient(calc[1].est_time_hr, calc[1].distance_m, 1000, speed_input)

\* C6, amended: every successful lookup has distance_km >= 0, namely the
\* service's metres over 1000, which is 0 when both selectors hold the same
\* hospital and positive when the request names two different points; and
\* est_time_hr is distance_km / speed up to floating-point rounding.
C6_Distance ==
    Succeeded =>
        /\ NearQuotient(calc[1].distance_km, calc[1].distance_m, 1000, 1)
        /\ IsZero(calc[1].distance_km) <=> sent[1] = sent[2]
        /\ (hospital_a = hospital_b) => IsZero(calc[1].distance_km)
        /\ NearQuotient(calc[1].est_time_hr, calc[1].distance_m, 1000, speed_input)

\* Both selectors hold the same hospital and the lookup succeeds.
C6_Witness ==
    Succeeded /\ hospital_a = hospital_b /\ state_a = state_b /\ IsZero(calc[1].distance_km)

----------------------------------------------------------------------------
(* C7 *)

\* This step changed a state or hospital selection.
SelectionChanged ==
    \/ state_a' # state_a \/ hospital_a' # hospital_a
    \/ state_b' # state_b \/ hospital_b' # hospital_b

FlowShapes ==
    {<<>>, <<"Idle">>, <<"Requesting", "Success">>, <<"Requesting", "Failure">>}

\* C7, as stated: an execution enters Requesting exactly when the key and both
\* hospitals are present, and selecting a new hospital or state takes the flow
\* to Requesting directly, from any prior state.
C7_AlwaysRequesting ==
    [][(Requested' <=> Ready') /\ (SelectionChanged => Requested')]_vars

\* C7, amended: the flow is Idle, or Requesting followed by Success (result
\* shown, download offered) or Failure (error shown); an execution enters
\* Requesting exactly when the key and both hospitals are present and the
\* reset button is not the widget pressed; and selecting a new hospital or
\* state while a key is entered takes the flow to Requesting directly, from
\* any prior state (without a key the execution stays Idle).
C7_Flow ==
    /\ [](/\ flow \in FlowShapes
          /\ Requested <=> (Ready /\ ~reset_map)
          /\ Succeeded => (ResultShown /\ download)
          /\ Failed => OfKind("error") # {}
          /\ (pc = "done" /\ ~Requested) <=> flow = <<"Idle">>)
    /\ [][(SelectionChanged /\ Truthy(api_key')) => Requested']_vars

\* A new state was selected after a failed lookup, and the lookup now succeeds.
C7_Witness ==
    Succeeded /\ prevAttempt = "Failure" /\ state_a # state_b

----------------------------------------------------------------------------
(* C8 *)

\* C8: a row of the sheet with an empty latitude or longitude is never offered
\* by a selector and never becomes a marker.  Every state offered, every
\* hospital offered under a state and every marker comes from a complete row.
C8_CompleteRowsOnly ==
    /\ \A s \in Range(StateOptions(df)) :
          \E i \in DOMAIN sheet : Complete(sheet[i]) /\ sheet[i].State = s
    /\ \A s \in Range(StateNames) : \A h \in Range(HospitalOptions(df, s)) :
          \E i \in DOMAIN sheet :
              Complete(sheet[i]) /\ sheet[i].State = s /\ sheet[i].Hospital = h
    /\ \A h \in {hospital_a, hospital_b} \ {NoneVal} :
          \E i \in DOMAIN sheet : Complete(sheet[i]) /\ sheet[i].Hospital = h
    /\ \A k \in DOMAIN m : m[k].kind = "Marker" =>
          \E i \in DOMAIN sheet :
              /\ Complete(sheet[i])
              /\ m[k].location = <<sheet[i].Latitude, sheet[i].Longitude>>
    /\ Cardinality({k \in DOMAIN m : m[k].kind = "Marker" /\ m[k].color = "blue"})
          = Cardinality({i \in DOMAIN sheet : Complete(sheet[i])})

\* The sheet has an incomplete row and a lookup between two complete rows
\* succeeded.
C8_Witness ==
    /\ \E i \in DOMAIN sheet : ~Complete(sheet[i])
    /\ Succeeded /\ displayed /\ hospital_a # hospital_b

----------------------------------------------------------------------------
(* C9 *)

\* C9: a user interaction issues at most one routing request; a failed request
\* is not retried, and an execution with the reset button pressed issues none
\* before it restarts.
C9_OneRequest ==
    /\ requests <= 1
    /\ Failed => requests <= 1
    /\ (reset_map \/ pc = "rerun") => (requests = 0 /\ sent = <<>>)
    /\ sent # <<>> => requests = 1

\* The request was issued and failed.
C9_Witness ==
    Failed /\ raised = <<ErrorText("directions")>> /\ requests = 1

----------------------------------------------------------------------------
(* C10 *)

\* A row of df with this name in this state has this coordinate.
RowAt(hospital, state, coord) ==
    \E i \in DOMAIN df :
        df[i].Hospital = hospital /\ df[i].State = state /\ Coord(df[i]) = coord

\* C10: the coordinates sent for endpoint A (B) are those of a row whose name
\* is the selected hospital and whose state is the selected state A (B), so
\* the record's State A / State B are the states of the rows the distance was
\* computed between.
C10_StateMatchesRow ==
    sent # <<>> =>
        /\ RowAt(hospital_a, state_a, sent[1])
        /\ RowAt(hospital_b, state_b, sent[2])
        /\ HasRecord =>
            /\ RowAt(route_data[1].HospitalA, route_data[1].StateA, sent[1])
            /\ RowAt(route_data[1].HospitalB, route_data[1].StateB, sent[2])

====
